---- MODULE Spec2Model ----
(***************************************************************************)
(* ExpiringDataContainer<T> (dual-structure revision): a min-heap ordered  *)
(* by expiration plus an insertion-ordered deque, one mutex, one condition *)
(* variable and a background cleanup thread.                               *)
(***************************************************************************)
EXTENDS Integers, Sequences, FiniteSets, TLC

\* ---------------------------------------------------------------- bounds
MaxTime == 3
MaxInserts == 2

\* fixed_duration, the constructor's argument (a positive duration)
fixed_duration == 2

\* the threads calling the public operations, and the values they insert
Clients == {1, 2}
Values == {1, 2}
\* thread ids of the cleanup thread and of the thread running the destructor;
\* the value of mtx when no thread owns it
Worker == 0
Owner == 9
Free == -1

Times == 0..MaxTime

VARIABLES
    clock,            \* Clock::now(), monotonic
    pq,               \* the vector under std::priority_queue (a binary heap)
    insertion_order,  \* std::deque<TimedData>
    stop_cleanup,     \* bool stop_cleanup
    mtx,              \* owner of std::mutex mtx, or Free
    pc,               \* position of each client thread
    loc,              \* insert's local now of each client thread
    wpc,              \* position of the cleanup thread
    deadline,         \* the absolute timeout of the worker's wait_for
    dpc,              \* position of the thread running the destructor
    hist,             \* history: the entries pushed so far, in push order
    wake,             \* history: "insert" while the worker, made runnable by an
                      \* insert's notify_all, has not yet rechecked its wait
    heap_only_pq,     \* pq of the heap-only revision, run in lockstep
    ret               \* history: what the step just taken returned, if a query

vars == <<clock, pq, insertion_order, stop_cleanup, mtx, pc, loc, wpc,
          deadline, dpc, hist, wake, heap_only_pq, ret>>

shared == <<pq, insertion_order, stop_cleanup>>

\* ------------------------------------------------------------- TimedData
TimedData(data, insertion, expiration) ==
    [data |-> data, insertion |-> insertion, expiration |-> expiration]

\* bool operator>(const TimedData &other) const
Greater(a, b) == a.expiration > b.expiration

\* ------------------------------------------- std::priority_queue (heap)
\* The heap is the underlying vector, h[i+1] being element i of the vector.
At(h, i) == h[i + 1]
Put(h, i, e) == [h EXCEPT ![i + 1] = e]

\* std::__push_heap: move the hole up while the parent compares greater
RECURSIVE PushHeap(_, _, _)
PushHeap(h, hole, value) ==
    IF hole > 0 /\ Greater(At(h, (hole - 1) \div 2), value)
    THEN PushHeap(Put(h, hole, At(h, (hole - 1) \div 2)), (hole - 1) \div 2, value)
    ELSE Put(h, hole, value)

\* pq.push(x): push_back, then push_heap
Push(h, e) == PushHeap(Append(h, e), Len(h), e)

\* pq.top()
Top(h) == h[1]

\* std::__adjust_heap, first loop: move the hole down to a leaf, always to
\* the child that does not compare greater than its sibling
RECURSIVE HoleDown(_, _, _)
HoleDown(h, hole, len) ==
    IF hole < (len - 1) \div 2
    THEN LET sc == 2 * (hole + 1)
             c  == IF Greater(At(h, sc), At(h, sc - 1)) THEN sc - 1 ELSE sc
         IN  HoleDown(Put(h, hole, At(h, c)), c, len)
    ELSE IF len % 2 = 0 /\ hole = (len - 2) \div 2
         THEN <<Put(h, hole, At(h, 2 * (hole + 1) - 1)), 2 * (hole + 1) - 1>>
         ELSE <<h, hole>>

\* pq.pop(): pop_heap, then pop_back
Pop(h) ==
    IF Len(h) <= 1 THEN <<>>
    ELSE LET len   == Len(h) - 1
             value == h[Len(h)]
             rest  == SubSeq(h, 1, len)
             down  == HoleDown(rest, 0, len)
         IN  PushHeap(down[1], down[2], value)

\* ------------------------------------------------------- remove_expired
\* mutation: the heap loop compares with < and keeps an entry that expires
\* exactly at now
RECURSIVE RemoveExpiredPqStrict(_, _)
RemoveExpiredPqStrict(h, now) ==
    IF h /= <<>> /\ Top(h).expiration < now
    THEN RemoveExpiredPqStrict(Pop(h), now)
    ELSE h

\* mutation: the heap loop is an if, popping at most one entry
RemoveExpiredPqOnce(h, now) ==
    IF h /= <<>> /\ Top(h).expiration <= now THEN Pop(h) ELSE h

\* while (!pq.empty() && pq.top().expiration <= now) pq.pop();
RECURSIVE RemoveExpiredPq(_, _)
RemoveExpiredPq(h, now) ==
    IF h /= <<>> /\ Top(h).expiration <= now
    THEN RemoveExpiredPq(Pop(h), now)
    ELSE h

\* mutation: the deque loop compares the front's insertion time with now
RECURSIVE RemoveExpiredDequeByInsertion(_, _)
RemoveExpiredDequeByInsertion(dq, now) ==
    IF dq /= <<>> /\ Head(dq).insertion <= now
    THEN RemoveExpiredDequeByInsertion(Tail(dq), now)
    ELSE dq

\* mutation: the deque loop pops only the entries with expiration < now
RECURSIVE RemoveExpiredDequeStrict(_, _)
RemoveExpiredDequeStrict(dq, now) ==
    IF dq /= <<>> /\ Head(dq).expiration < now
    THEN RemoveExpiredDequeStrict(Tail(dq), now)
    ELSE dq

\* while (!insertion_order.empty() && insertion_order.front().expiration <= now)
\*     insertion_order.pop_front();
RECURSIVE RemoveExpiredDeque(_, _)
RemoveExpiredDeque(dq, now) ==
    IF dq /= <<>> /\ Head(dq).expiration <= now
    THEN RemoveExpiredDeque(Tail(dq), now)
    ELSE dq

\* remove_expired(now): the heap loop, then the deque loop
RemoveExpired(h, dq, now) == <<RemoveExpiredPq(h, now), RemoveExpiredDeque(dq, now)>>

\* ------------------------------------------------- the queries' loops
\* get_valid_data: drain the copy temp_pq, collecting top().data
RECURSIVE ValidDataLoop(_)
ValidDataLoop(temp_pq) ==
    IF temp_pq = <<>> THEN <<>>
    ELSE <<Top(temp_pq).data>> \o ValidDataLoop(Pop(temp_pq))

\* is_less_than_all: drain the copy temp_pq, false at the first entry with
\* insertion <= time
RECURSIVE LessThanAllLoop(_, _)
LessThanAllLoop(temp_pq, time) ==
    IF temp_pq = <<>> THEN TRUE
    ELSE IF Top(temp_pq).insertion <= time THEN FALSE
    ELSE LessThanAllLoop(Pop(temp_pq), time)

\* mutation: the loop keeps the entries with insertion >= time
RECURSIVE ExceedingLoopInclusive(_, _)
ExceedingLoopInclusive(temp_pq, time) ==
    IF temp_pq = <<>> THEN <<>>
    ELSE (IF Top(temp_pq).insertion >= time THEN <<Top(temp_pq).data>> ELSE <<>>)
         \o ExceedingLoopInclusive(Pop(temp_pq), time)

\* get_data_exceeding: drain the copy temp_pq, collecting top().data of the
\* entries with insertion > time
RECURSIVE ExceedingLoop(_, _)
ExceedingLoop(temp_pq, time) ==
    IF temp_pq = <<>> THEN <<>>
    ELSE (IF Top(temp_pq).insertion > time THEN <<Top(temp_pq).data>> ELSE <<>>)
         \o ExceedingLoop(Pop(temp_pq), time)

\* ------------------------------------------ what the queries return
\* get_valid_data at clock reading now: remove_expired(now), then the loop
GetValidDataResult(h, now) == ValidDataLoop(RemoveExpiredPq(h, now))

\* is_less_than_all(time): the loop over a copy of pq as it is
IsLessThanAllResult(h, time) == LessThanAllLoop(h, time)

\* get_data_exceeding(time) at clock reading now: remove_expired(now), then
\* the loop
GetDataExceedingResult(h, now, time) == ExceedingLoop(RemoveExpiredPq(h, now), time)

\* size()
SizeResult(h) == Len(h)

\* ------------------------------------------------- heap-only revision
\* remove_expired of the heap-only revision: the heap loop alone
RECURSIVE HeapOnlyRemoveExpired(_, _)
HeapOnlyRemoveExpired(h, now) ==
    IF h /= <<>> /\ Top(h).expiration <= now
    THEN HeapOnlyRemoveExpired(Pop(h), now)
    ELSE h

\* get_valid_data of the heap-only revision
RECURSIVE HeapOnlyValidDataLoop(_)
HeapOnlyValidDataLoop(temp_pq) ==
    IF temp_pq = <<>> THEN <<>>
    ELSE <<Top(temp_pq).data>> \o HeapOnlyValidDataLoop(Pop(temp_pq))

HeapOnlyGetValidDataResult(h, now) ==
    HeapOnlyValidDataLoop(HeapOnlyRemoveExpired(h, now))

\* is_less_than_all of the heap-only revision
RECURSIVE HeapOnlyIsLessThanAllResult(_, _)
HeapOnlyIsLessThanAllResult(temp_pq, time) ==
    IF temp_pq = <<>> THEN TRUE
    ELSE IF Top(temp_pq).insertion <= time THEN FALSE
    ELSE HeapOnlyIsLessThanAllResult(Pop(temp_pq), time)

\* get_data_exceeding of the heap-only revision
RECURSIVE HeapOnlyExceedingLoop(_, _)
HeapOnlyExceedingLoop(temp_pq, time) ==
    IF temp_pq = <<>> THEN <<>>
    ELSE (IF Top(temp_pq).insertion > time THEN <<Top(temp_pq).data>> ELSE <<>>)
         \o HeapOnlyExceedingLoop(Pop(temp_pq), time)

HeapOnlyGetDataExceedingResult(h, now, time) ==
    HeapOnlyExceedingLoop(HeapOnlyRemoveExpired(h, now), time)

\* ------------------------------------------------------------ the state
NoRet == [op |-> "none", now |-> 0, time |-> 0, seq |-> <<>>, flag |-> FALSE,
          num |-> 0, err |-> FALSE,
          \* what the heap-only revision returns for the same call
          old_seq |-> <<>>, old_flag |-> FALSE]

\* The constructor: empty structures, stop_cleanup = false, the cleanup
\* thread started at the top of its loop.
Init ==
    /\ clock = 0
    /\ pq = <<>>
    /\ insertion_order = <<>>
    /\ stop_cleanup = FALSE
    /\ mtx = Free
    /\ pc = [th \in Clients |-> "idle"]
    /\ loc = [th \in Clients |-> 0]
    /\ wpc = "lock"
    /\ deadline = 0
    /\ dpc = "idle"
    /\ hist = <<>>
    /\ wake = "none"
    /\ heap_only_pq = <<>>
    /\ ret = NoRet

\* steady_clock advances
Tick ==
    /\ clock < MaxTime
    /\ clock' = clock + 1
    /\ UNCHANGED <<pq, insertion_order, stop_cleanup, mtx, pc, loc, wpc,
                   deadline, dpc, hist>>
    /\ ret' = NoRet
    /\ UNCHANGED <<wake, heap_only_pq>>

\* cv.notify_all(): a thread blocked in the wait is made runnable
NotifyAll(w) == IF w = "waiting" THEN "woken" ELSE w

\* --------------------------------------------------------------- insert
InFlight == Cardinality({th \in Clients : pc[th] \in {"insert_lock", "insert_push"}})

\* TimePoint now = Clock::now(); TimePoint expiration = now + fixed_duration;
InsertReadClock(th) ==
    /\ pc[th] = "idle"
    /\ dpc = "idle"
    /\ Len(hist) + InFlight < MaxInserts
    /\ pc' = [pc EXCEPT ![th] = "insert_lock"]
    /\ loc' = [loc EXCEPT ![th] = clock]
    /\ UNCHANGED <<clock, pq, insertion_order, stop_cleanup, mtx, wpc,
                   deadline, dpc, hist>>
    /\ ret' = NoRet
    /\ UNCHANGED <<wake, heap_only_pq>>

\* mutation: insert goes on to the push without taking the mutex
InsertNoLock(th) ==
    /\ pc[th] = "insert_lock"
    /\ pc' = [pc EXCEPT ![th] = "insert_push"]
    /\ UNCHANGED <<clock, pq, insertion_order, stop_cleanup, mtx, loc, wpc,
                   deadline, dpc, hist>>
    /\ ret' = NoRet
    /\ UNCHANGED <<wake, heap_only_pq>>

\* std::lock_guard<std::mutex> lock(mtx);
InsertLock(th) ==
    /\ pc[th] = "insert_lock"
    /\ mtx = Free
    /\ mtx' = th
    /\ pc' = [pc EXCEPT ![th] = "insert_push"]
    /\ UNCHANGED <<clock, pq, insertion_order, stop_cleanup, loc, wpc,
                   deadline, dpc, hist>>
    /\ ret' = NoRet
    /\ UNCHANGED <<wake, heap_only_pq>>

\* mutation: insert pushes onto the heap only, as the heap-only revision does
InsertPushHeapOnly(th, data) ==
    /\ pc[th] = "insert_push"
    /\ LET now        == loc[th]
           expiration == now + fixed_duration
           timed_data == TimedData(data, now, expiration)
       IN  /\ pq' = Push(pq, timed_data)
           /\ heap_only_pq' = Push(heap_only_pq, timed_data)
           /\ hist' = Append(hist, timed_data)
    /\ mtx' = Free
    /\ pc' = [pc EXCEPT ![th] = "insert_notify"]
    /\ loc' = [loc EXCEPT ![th] = 0]
    /\ UNCHANGED <<clock, insertion_order, stop_cleanup, wpc, deadline, dpc>>
    /\ ret' = NoRet
    /\ UNCHANGED wake

\* TimedData timed_data = {data, now, expiration}; pq.push(timed_data);
\* insertion_order.push_back(timed_data); unlock.  The argument data is
\* first read here.
InsertPush(th, data) ==
    /\ pc[th] = "insert_push"
    /\ LET now        == loc[th]
           expiration == now + fixed_duration
           timed_data == TimedData(data, now, expiration)
       IN  /\ pq' = Push(pq, timed_data)
           /\ insertion_order' = Append(insertion_order, timed_data)
           /\ heap_only_pq' = Push(heap_only_pq, timed_data)
           /\ hist' = Append(hist, timed_data)
    /\ mtx' = Free
    /\ pc' = [pc EXCEPT ![th] = "insert_notify"]
    /\ loc' = [loc EXCEPT ![th] = 0]
    /\ UNCHANGED <<clock, stop_cleanup, wpc, deadline, dpc>>
    /\ ret' = NoRet
    /\ UNCHANGED wake

\* cv.notify_all(); return
InsertNotify(th) ==
    /\ pc[th] = "insert_notify"
    /\ wpc' = NotifyAll(wpc)
    /\ wake' = IF wpc = "waiting" THEN "insert" ELSE wake
    /\ pc' = [pc EXCEPT ![th] = "idle"]
    /\ UNCHANGED <<clock, pq, insertion_order, stop_cleanup, mtx, loc,
                   deadline, dpc, hist>>
    /\ ret' = NoRet
    /\ UNCHANGED heap_only_pq

\* -------------------------------------------------------------- queries
QueryOps == {"get_valid_data", "is_less_than_all", "get_data_exceeding",
             "size", "get_most_recent"}

\* the first statement of every query: std::lock_guard<std::mutex> lock(mtx);
QueryLock(th, op) ==
    /\ pc[th] = "idle"
    /\ dpc = "idle"
    /\ mtx = Free
    /\ mtx' = th
    /\ pc' = [pc EXCEPT ![th] = op]
    /\ UNCHANGED <<clock, pq, insertion_order, stop_cleanup, loc, wpc,
                   deadline, dpc, hist>>
    /\ ret' = NoRet
    /\ UNCHANGED <<wake, heap_only_pq>>

GetValidData(th) ==
    /\ pc[th] = "get_valid_data"
    /\ LET now == clock
       IN  /\ pq' = RemoveExpiredPq(pq, now)
           /\ insertion_order' = RemoveExpiredDeque(insertion_order, now)
           /\ heap_only_pq' = HeapOnlyRemoveExpired(heap_only_pq, now)
           /\ ret' = [NoRet EXCEPT !.op = "get_valid_data", !.now = now,
                                   !.seq = GetValidDataResult(pq, now),
                                   !.old_seq = HeapOnlyGetValidDataResult(heap_only_pq, now)]
    /\ mtx' = Free
    /\ pc' = [pc EXCEPT ![th] = "idle"]
    /\ UNCHANGED <<clock, stop_cleanup, loc, wpc, deadline, dpc, hist>>
    /\ UNCHANGED wake

IsLessThanAll(th, time) ==
    /\ pc[th] = "is_less_than_all"
    /\ ret' = [NoRet EXCEPT !.op = "is_less_than_all", !.now = clock,
                            !.time = time,
                            !.flag = IsLessThanAllResult(pq, time),
                            !.old_flag = HeapOnlyIsLessThanAllResult(heap_only_pq, time)]
    /\ mtx' = Free
    /\ pc' = [pc EXCEPT ![th] = "idle"]
    /\ UNCHANGED <<clock, pq, insertion_order, stop_cleanup, loc, wpc,
                   deadline, dpc, hist>>
    /\ UNCHANGED <<wake, heap_only_pq>>

GetDataExceeding(th, time) ==
    /\ pc[th] = "get_data_exceeding"
    /\ LET now == clock
       IN  /\ pq' = RemoveExpiredPq(pq, now)
           /\ insertion_order' = RemoveExpiredDeque(insertion_order, now)
           /\ heap_only_pq' = HeapOnlyRemoveExpired(heap_only_pq, now)
           /\ ret' = [NoRet EXCEPT !.op = "get_data_exceeding", !.now = now,
                                   !.time = time,
                                   !.seq = GetDataExceedingResult(pq, now, time),
                                   !.old_seq = HeapOnlyGetDataExceedingResult(heap_only_pq, now, time)]
    /\ mtx' = Free
    /\ pc' = [pc EXCEPT ![th] = "idle"]
    /\ UNCHANGED <<clock, stop_cleanup, loc, wpc, deadline, dpc, hist>>
    /\ UNCHANGED wake

\* mutation: size() runs an eviction pass first, as the other queries do
SizeEvicting(th) ==
    /\ pc[th] = "size"
    /\ pq' = RemoveExpiredPq(pq, clock)
    /\ insertion_order' = RemoveExpiredDeque(insertion_order, clock)
    /\ ret' = [NoRet EXCEPT !.op = "size", !.now = clock,
                            !.num = SizeResult(pq')]
    /\ mtx' = Free
    /\ pc' = [pc EXCEPT ![th] = "idle"]
    /\ UNCHANGED <<clock, stop_cleanup, loc, wpc, deadline, dpc, hist>>
    /\ UNCHANGED <<wake, heap_only_pq>>

\* return pq.size();
Size(th) ==
    /\ pc[th] = "size"
    /\ ret' = [NoRet EXCEPT !.op = "size", !.now = clock,
                            !.num = SizeResult(pq)]
    /\ mtx' = Free
    /\ pc' = [pc EXCEPT ![th] = "idle"]
    /\ UNCHANGED <<clock, pq, insertion_order, stop_cleanup, loc, wpc,
                   deadline, dpc, hist>>
    /\ UNCHANGED <<wake, heap_only_pq>>

\* throw std::runtime_error if insertion_order.empty(), else
\* return insertion_order.back().data;
GetMostRecent(th) ==
    /\ pc[th] = "get_most_recent"
    /\ ret' = IF insertion_order = <<>>
              THEN [NoRet EXCEPT !.op = "get_most_recent", !.now = clock,
                                 !.err = TRUE]
              ELSE [NoRet EXCEPT !.op = "get_most_recent", !.now = clock,
                                 !.num = insertion_order[Len(insertion_order)].data]
    /\ mtx' = Free
    /\ pc' = [pc EXCEPT ![th] = "idle"]
    /\ UNCHANGED <<clock, pq, insertion_order, stop_cleanup, loc, wpc,
                   deadline, dpc, hist>>
    /\ UNCHANGED <<wake, heap_only_pq>>

\* ------------------------------------------------- cleanup_expired_data
\* std::unique_lock<std::mutex> lock(mtx); wait_for computes its absolute
\* timeout now + fixed_duration
WorkerLock ==
    /\ wpc = "lock"
    /\ mtx = Free
    /\ mtx' = Worker
    /\ deadline' = clock + fixed_duration
    /\ wpc' = "pred"
    /\ UNCHANGED <<clock, pq, insertion_order, stop_cleanup, pc, loc, dpc,
                   hist>>
    /\ ret' = NoRet
    /\ UNCHANGED <<wake, heap_only_pq>>

\* cv.wait_for(lock, fixed_duration, pred), with the lock held:
\*   while (!pred()) if (wait_until(lock, atime) == timeout) return pred();
\* it returns when stop_cleanup is set or the timeout has passed, and
\* otherwise releases the mutex and blocks
WorkerWaitFor ==
    /\ wpc = "pred"
    /\ wake' = "none"
    /\ IF stop_cleanup \/ clock >= deadline
       THEN /\ wpc' = "check"
            /\ deadline' = 0
            /\ UNCHANGED mtx
       ELSE /\ wpc' = "waiting"
            /\ mtx' = Free
            /\ UNCHANGED deadline
    /\ UNCHANGED <<clock, pq, insertion_order, stop_cleanup, pc, loc, dpc,
                   hist>>
    /\ ret' = NoRet
    /\ UNCHANGED heap_only_pq

\* the timed wait ends at the timeout
WorkerTimeout ==
    /\ wpc = "waiting"
    /\ clock >= deadline
    /\ wpc' = "woken"
    /\ UNCHANGED wake
    /\ UNCHANGED <<clock, pq, insertion_order, stop_cleanup, mtx, pc, loc,
                   deadline, dpc, hist>>
    /\ ret' = NoRet
    /\ UNCHANGED heap_only_pq

\* a condition variable may wake spuriously
WorkerSpuriousWake ==
    /\ wpc = "waiting"
    /\ wpc' = "woken"
    /\ UNCHANGED wake
    /\ UNCHANGED <<clock, pq, insertion_order, stop_cleanup, mtx, pc, loc,
                   deadline, dpc, hist>>
    /\ ret' = NoRet
    /\ UNCHANGED heap_only_pq

\* the wait reacquires the mutex before it returns
WorkerReacquire ==
    /\ wpc = "woken"
    /\ mtx = Free
    /\ mtx' = Worker
    /\ wpc' = "pred"
    /\ UNCHANGED <<clock, pq, insertion_order, stop_cleanup, pc, loc,
                   deadline, dpc, hist>>
    /\ ret' = NoRet
    /\ UNCHANGED <<wake, heap_only_pq>>

\* if (stop_cleanup) break; auto now = Clock::now(); remove_expired(now);
\* the unique_lock is released at the end of the iteration or by the break
\* mutation: the worker sweeps before it tests the flag
WorkerCheckSweepFirst ==
    /\ wpc = "check"
    /\ pq' = RemoveExpiredPq(pq, clock)
    /\ insertion_order' = RemoveExpiredDeque(insertion_order, clock)
    /\ heap_only_pq' = HeapOnlyRemoveExpired(heap_only_pq, clock)
    /\ wpc' = IF stop_cleanup THEN "exited" ELSE "lock"
    /\ mtx' = Free
    /\ UNCHANGED <<clock, stop_cleanup, pc, loc, deadline, dpc, hist>>
    /\ ret' = NoRet
    /\ UNCHANGED wake

WorkerCheck ==
    /\ wpc = "check"
    /\ IF stop_cleanup
       THEN /\ wpc' = "exited"
            /\ UNCHANGED <<pq, insertion_order, heap_only_pq>>
       ELSE /\ wpc' = "lock"
            /\ pq' = RemoveExpiredPq(pq, clock)
            /\ insertion_order' = RemoveExpiredDeque(insertion_order, clock)
            /\ heap_only_pq' = HeapOnlyRemoveExpired(heap_only_pq, clock)
    /\ mtx' = Free
    /\ UNCHANGED <<clock, stop_cleanup, pc, loc, deadline, dpc, hist>>
    /\ ret' = NoRet
    /\ UNCHANGED wake

\* ----------------------------------------------------------- destructor
\* std::lock_guard<std::mutex> lock(mtx);  The object is destroyed when no
\* member function is running on it any more.
DestructorLock ==
    /\ dpc = "idle"
    /\ \A th \in Clients : pc[th] = "idle"
    /\ mtx = Free
    /\ mtx' = Owner
    /\ dpc' = "set_stop"
    /\ UNCHANGED <<clock, pq, insertion_order, stop_cleanup, pc, loc, wpc,
                   deadline, hist>>
    /\ ret' = NoRet
    /\ UNCHANGED <<wake, heap_only_pq>>

\* stop_cleanup = true; unlock
DestructorSetStop ==
    /\ dpc = "set_stop"
    /\ stop_cleanup' = TRUE
    /\ mtx' = Free
    /\ dpc' = "notify"
    /\ UNCHANGED <<clock, pq, insertion_order, pc, loc, wpc, deadline, hist>>
    /\ ret' = NoRet
    /\ UNCHANGED <<wake, heap_only_pq>>

\* mutation: the destructor joins without notifying the condition variable
DestructorNoNotify ==
    /\ dpc = "notify"
    /\ dpc' = "join"
    /\ UNCHANGED <<clock, pq, insertion_order, stop_cleanup, mtx, pc, loc,
                   wpc, deadline, hist>>
    /\ ret' = NoRet
    /\ UNCHANGED <<wake, heap_only_pq>>

\* cv.notify_all();
DestructorNotify ==
    /\ dpc = "notify"
    /\ wpc' = NotifyAll(wpc)
    /\ UNCHANGED wake
    /\ dpc' = "join"
    /\ UNCHANGED <<clock, pq, insertion_order, stop_cleanup, mtx, pc, loc,
                   deadline, hist>>
    /\ ret' = NoRet
    /\ UNCHANGED heap_only_pq

\* cleanup_thread.join();
DestructorJoin ==
    /\ dpc = "join"
    /\ wpc = "exited"
    /\ dpc' = "done"
    /\ UNCHANGED <<clock, pq, insertion_order, stop_cleanup, mtx, pc, loc,
                   wpc, deadline, hist>>
    /\ ret' = NoRet
    /\ UNCHANGED <<wake, heap_only_pq>>

\* -------------------------------------------------------- specification
Next ==
    \/ Tick
    \/ \E th \in Clients : InsertReadClock(th)
    \/ \E th \in Clients : InsertLock(th)
    \/ \E th \in Clients, data \in Values : InsertPush(th, data)
    \/ \E th \in Clients : InsertNotify(th)
    \/ \E th \in Clients, op \in QueryOps : QueryLock(th, op)
    \/ \E th \in Clients : GetValidData(th)
    \/ \E th \in Clients, time \in Times : IsLessThanAll(th, time)
    \/ \E th \in Clients, time \in Times : GetDataExceeding(th, time)
    \/ \E th \in Clients : Size(th)
    \/ \E th \in Clients : GetMostRecent(th)
    \/ WorkerLock
    \/ WorkerWaitFor
    \/ WorkerTimeout
    \/ WorkerSpuriousWake
    \/ WorkerReacquire
    \/ WorkerCheck
    \/ DestructorLock
    \/ DestructorSetStop
    \/ DestructorNotify
    \/ DestructorJoin

Spec == Init /\ [][Next]_vars

\* Fair scheduling of the runnable threads: the cleanup thread and the
\* thread running the destructor keep taking their steps.  Nothing is
\* assumed about the clock advancing, about spurious wake-ups or about the
\* clients.
WorkerProgress ==
    WorkerLock \/ WorkerWaitFor \/ WorkerTimeout \/ WorkerReacquire \/ WorkerCheck

DestructorProgress == DestructorSetStop \/ DestructorNotify \/ DestructorJoin

LiveSpec ==
    Init /\ [][Next]_vars /\ WF_vars(WorkerProgress) /\ WF_vars(DestructorProgress)

\* The running container with no query ever called, under the timing the
\* staleness bound assumes: the worker is scheduled at once whenever it can
\* run, its timed wait fires exactly at the timeout, and critical sections
\* take no time.  So the clock advances only while nobody holds the mutex
\* and the worker is blocked in its wait with the timeout still ahead.
\* Nothing is assumed about when a client runs outside its critical section.
Horizon == MaxTime + 2 * fixed_duration

TimedTick ==
    /\ clock < Horizon
    /\ mtx = Free
    /\ wpc = "waiting"
    /\ clock < deadline
    /\ clock' = clock + 1
    /\ UNCHANGED <<pq, insertion_order, stop_cleanup, mtx, pc, loc, wpc,
                   deadline, dpc, hist, wake, heap_only_pq>>
    /\ ret' = NoRet

TimedNext ==
    \/ TimedTick
    \/ \E th \in Clients : InsertReadClock(th)
    \/ \E th \in Clients : InsertLock(th)
    \/ \E th \in Clients, data \in Values : InsertPush(th, data)
    \/ \E th \in Clients : InsertNotify(th)
    \/ WorkerLock
    \/ WorkerWaitFor
    \/ WorkerTimeout
    \/ WorkerSpuriousWake
    \/ WorkerReacquire
    \/ WorkerCheck

TimedSpec == Init /\ [][TimedNext]_vars

\* ------------------------------------------------------------ properties
HeapEntries(h) == {h[i] : i \in 1..Len(h)}
Count(seq, v) == Cardinality({i \in 1..Len(seq) : seq[i] = v})

\* the entries of a heap in the order pop() hands them out
RECURSIVE Drained(_)
Drained(h) == IF h = <<>> THEN <<>> ELSE <<Top(h)>> \o Drained(Pop(h))

DataOf(entries) == [i \in 1..Len(entries) |-> entries[i].data]

\* the pushed entries that are live at t and were inserted after time
LiveAfter(t, time) ==
    {i \in 1..Len(hist) : hist[i].expiration > t /\ hist[i].insertion > time}

\* C1 (TTL correctness): a get_valid_data() call that reads the clock as t
\* returns every pushed value v with t < t0 + d and no pushed value with
\* t >= t0 + d, counted with multiplicity; when every pushed entry is at
\* least d old it returns the empty sequence.
C1_TTLCorrectness ==
    ret.op = "get_valid_data" =>
        /\ \A v \in Values :
              Count(ret.seq, v) =
                  Cardinality({i \in 1..Len(hist) :
                                  /\ hist[i].data = v
                                  /\ ret.now < hist[i].insertion + fixed_duration})
        /\ (\A i \in 1..Len(hist) : ret.now >= hist[i].insertion + fixed_duration)
              => ret.seq = <<>>

\* a get_valid_data() call has returned one of two pushed values: the other
\* one had expired
C1_Witness ==
    /\ ret.op = "get_valid_data"
    /\ Len(hist) = 2
    /\ Len(ret.seq) = 1

\* C2 (recency ordering): whenever get_most_recent() returns a value, it is
\* the value of an entry with the greatest insertion time among the entries
\* present in the deque.
C2_RecencyOrdering ==
    (ret.op = "get_most_recent" /\ ~ret.err) =>
        \E i \in 1..Len(insertion_order) :
            /\ insertion_order[i].data = ret.num
            /\ \A j \in 1..Len(insertion_order) :
                  insertion_order[j].insertion <= insertion_order[i].insertion

C4_CrossQueryRelation ==
    \A t \in Times :
        IsLessThanAllResult(pq, t) =
            (Len(GetDataExceedingResult(pq, clock, t)) = Len(GetValidDataResult(pq, clock)))

\* C5 (is_less_than_all): the call performs an eviction pass (no entry with
\* expiration <= now is left in the heap) and returns true exactly when
\* every entry with expiration > now has insertion > time.
C5_IsLessThanAll ==
    ret.op = "is_less_than_all" =>
        /\ \A e \in HeapEntries(pq) : e.expiration > ret.now
        /\ ret.flag = (\A e \in HeapEntries(pq) :
                          e.expiration > ret.now => e.insertion > ret.time)

\* C6 (get_data_exceeding): the call returns the values of exactly the
\* pushed entries with expiration > now and insertion > time, each once, in
\* non-decreasing order of expiration; and its result is what is left of
\* get_valid_data()'s result in the same state when the entries with
\* insertion <= time are dropped.
C6_GetDataExceeding ==
    ret.op = "get_data_exceeding" =>
        LET want  == LiveAfter(ret.now, ret.time)
            valid == Drained(RemoveExpiredPq(pq, ret.now))
        IN  /\ Len(ret.seq) = Cardinality(want)
            /\ \E f \in [1..Len(ret.seq) -> want] :
                  /\ \A a, b \in 1..Len(ret.seq) : a /= b => f[a] /= f[b]
                  /\ \A a \in 1..Len(ret.seq) : ret.seq[a] = hist[f[a]].data
                  /\ \A a, b \in 1..Len(ret.seq) :
                        a < b => hist[f[a]].expiration <= hist[f[b]].expiration
            /\ GetValidDataResult(pq, ret.now) = DataOf(valid)
            /\ ret.seq = DataOf(SelectSeq(valid, LAMBDA e : e.insertion > ret.time))

\* get_data_exceeding() has returned one of two live entries: the other was
\* inserted at or before time
C6_Witness ==
    /\ ret.op = "get_data_exceeding"
    /\ Len(pq) = 2
    /\ Len(ret.seq) = 1

\* C7 (shutdown liveness): once the destructor has taken the mutex to set
\* the stop flag, the worker exits and the destructor returns, whatever the
\* worker was doing and without the clock having to advance; and the
\* destructor has never returned while the worker has not exited.
C7_ShutdownLiveness ==
    /\ (dpc = "set_stop") ~> (dpc = "done" /\ wpc = "exited")
    /\ [](dpc = "done" => wpc = "exited")

\* the destructor has returned before any time has passed: the worker left
\* on the notification, its timeout of fixed_duration had not elapsed
C7_Witness ==
    /\ dpc = "done"
    /\ wpc = "exited"
    /\ clock = 0

\* C8 (mutual exclusion): a thread that is at a statement reading or writing
\* the heap, the deque or the stop flag holds the mutex, so at most one
\* thread is at such a statement.
ClientAccessing(th) == pc[th] \in {"insert_push"} \cup QueryOps
WorkerAccessing == wpc \in {"pred", "check"}
OwnerAccessing == dpc = "set_stop"

C8_MutualExclusion ==
    /\ \A th \in Clients : ClientAccessing(th) => mtx = th
    /\ WorkerAccessing => mtx = Worker
    /\ OwnerAccessing => mtx = Owner
    /\ Cardinality({th \in Clients : ClientAccessing(th)})
         + (IF WorkerAccessing THEN 1 ELSE 0)
         + (IF OwnerAccessing THEN 1 ELSE 0) <= 1

\* one client is pushing while the other client and the woken worker are
\* waiting for the mutex
C8_Witness ==
    /\ \E th \in Clients : pc[th] = "insert_push" /\ mtx = th
    /\ \E th \in Clients : pc[th] = "insert_lock"
    /\ wpc = "woken"

\* C9 (size): size() returns the number of entries in the heap, expired and
\* unswept ones included, and neither size() nor get_most_recent() changes
\* the heap, the deque or the stop flag.
C9_SizeNoEviction ==
    [][ /\ ret'.op = "size" => (ret'.num = Len(pq) /\ UNCHANGED shared)
        /\ ret'.op = "get_most_recent" => UNCHANGED shared ]_vars

\* size() has returned more than get_valid_data() would return in that state
C9_Witness ==
    /\ ret.op = "size"
    /\ ret.num > Len(GetValidDataResult(pq, clock))

\* C10 (sortedness): the deque is sorted in non-decreasing order of
\* insertion time from front to back.
C10_DequeSorted ==
    \A i, j \in 1..Len(insertion_order) :
        i < j => insertion_order[i].insertion <= insertion_order[j].insertion

\* C11 (dual-structure consistency for live entries): whenever the mutex is
\* free, an entry with expiration > now occurs in the heap as often as in the
\* deque; and no step removes from the heap or from the deque an entry whose
\* expiration is greater than the clock reading of that step.
C11_LiveConsistency ==
    /\ [](mtx = Free =>
            \A e \in HeapEntries(pq) \cup HeapEntries(insertion_order) :
                e.expiration > clock => Count(pq, e) = Count(insertion_order, e))
    /\ [][\A e \in HeapEntries(pq) \cup HeapEntries(insertion_order) :
             e.expiration > clock =>
                 /\ Count(pq', e) >= Count(pq, e)
                 /\ Count(insertion_order', e) >= Count(insertion_order, e)]_vars

\* the mutex is free, the heap holds one live entry and the deque holds it
\* together with an expired entry that is no longer in the heap
C11_Witness ==
    /\ mtx = Free
    /\ Len(pq) = 1
    /\ Len(insertion_order) = 2
    /\ pq[1].expiration > clock

\* C12 (idempotent eviction): in every reachable state and for every time
\* now, remove_expired(now) run twice leaves the heap and the deque as one
\* run does, and after one run no entry of the heap has expiration <= now.
C12_IdempotentEviction ==
    \A now \in 0..(MaxTime + fixed_duration) :
        LET once  == RemoveExpired(pq, insertion_order, now)
            twice == RemoveExpired(once[1], once[2], now)
        IN  /\ twice = once
            /\ \A e \in HeapEntries(once[1]) : e.expiration > now

\* the heap holds two entries that have both expired: one run of
\* remove_expired pops more than once
C12_Witness ==
    /\ Len(pq) = 2
    /\ \A e \in HeapEntries(pq) : e.expiration <= clock

\* C13 (bounded staleness): with no query called and the worker running
\* under the timing above, no entry is in the heap later than one
\* fixed_duration after its expiration.
C13_BoundedStaleness ==
    \A e \in HeapEntries(pq) : clock <= e.expiration + fixed_duration

\* C14 (insert wakes the sweep): a worker that insert's notification woke
\* from its timed wait, with the stop flag not set and the timeout of that
\* wait not yet elapsed, goes on to an eviction pass; it does not go back
\* to waiting without one.
C14_InsertWakesSweep ==
    [][(wpc = "pred" /\ wake = "insert" /\ ~stop_cleanup /\ clock < deadline)
          => wpc' /= "waiting"]_vars

\* C15 (worker exit discipline): the worker has exited only in states where
\* the stop flag is true; and a worker step taken with the stop flag set
\* leaves both structures as they are and leads nowhere but to the exit.
C15_WorkerExitDiscipline ==
    /\ [](wpc = "exited" => stop_cleanup)
    /\ [][ /\ (wpc /= "exited" /\ wpc' = "exited") => stop_cleanup
           /\ stop_cleanup =>
                 /\ pq' = pq
                 /\ insertion_order' = insertion_order
           /\ (wpc = "check" /\ wpc' = "lock") => ~stop_cleanup ]_vars

\* the worker has exited on the stop flag and left an expired entry in the
\* heap: its last wake-up made no eviction pass
C15_Witness ==
    /\ wpc = "exited"
    /\ \E e \in HeapEntries(pq) : e.expiration <= clock

\* C16 (revision equivalence): driven by the same inserts, queries and
\* worker sweeps with the same clock readings, the heap of the heap-only
\* revision holds the same entries as the heap of the dual-structure
\* revision after every step, and every get_valid_data, is_less_than_all
\* and get_data_exceeding call returns the same result in both.
C16_RevisionEquivalence ==
    /\ \A e \in HeapEntries(pq) \cup HeapEntries(heap_only_pq) :
          Count(pq, e) = Count(heap_only_pq, e)
    /\ ret.op \in {"get_valid_data", "get_data_exceeding"} => ret.old_seq = ret.seq
    /\ ret.op = "is_less_than_all" => ret.old_flag = ret.flag

\* get_data_exceeding() has returned one value in both revisions, after one
\* of two pushed entries was evicted from both heaps
C16_Witness ==
    /\ ret.op = "get_data_exceeding"
    /\ Len(hist) = 2
    /\ Len(heap_only_pq) = 1
    /\ Len(ret.old_seq) = 1

\* C17 (same entries): whenever the mutex is free the heap and the deque
\* hold the same multiset of entries.
C17_SameEntries ==
    mtx = Free =>
        \A e \in HeapEntries(pq) \cup HeapEntries(insertion_order) :
            Count(pq, e) = Count(insertion_order, e)

\* C18 (emptiness agrees): whenever the mutex is free the heap is empty
\* exactly when the deque is empty; and get_most_recent() signals
\* EmptyContainer exactly when size() would return 0.
C18_EmptinessAgrees ==
    /\ mtx = Free => ((pq = <<>>) <=> (insertion_order = <<>>))
    /\ ret.op = "get_most_recent" => (ret.err <=> SizeResult(pq) = 0)

\* both structures have been emptied after two inserts whose entries were
\* appended to the deque out of insertion-time order
C18_Witness ==
    /\ mtx = Free
    /\ pq = <<>>
    /\ insertion_order = <<>>
    /\ Len(hist) = 2
    /\ hist[1].insertion > hist[2].insertion

====
